---- MODULE Spec2Model ----
(***************************************************************************)
(* Orbit camera example (src/main.rs): a Startup schedule that spawns the  *)
(* scene, and an Update schedule that runs `orbit` and `rotate` once per   *)
(* frame.                                                                  *)
(*                                                                         *)
(* Units.  Angles are integers in milliradians, mouse motion in pixels,    *)
(* frame time in milliseconds.  With these units the f32 settings of       *)
(* CameraSettings::default are the integers below: 0.003 rad/px = 3,       *)
(* 0.004 rad/px = 4, 1.0 rad/s = 1 mrad/ms, 0.01 rad = 10.                 *)
(* f32 rounding is not modelled.                                           *)
(***************************************************************************)
EXTENDS Integers, Sequences, FiniteSets

\* ---------------------------------------------------------------- bounds
MaxFrames == 2
\* the longest drag on an axis (px): from the pitch of setup it carries the
\* unclamped pitch past the limit but not past the vertical
MaxDrag == 712
MaxDelta == 2000

\* mouse motion per axis (px) and frame times (ms) offered to a frame
MotionValues == {-MaxDrag, 0, MaxDrag}
DeltaValues == {0, 16, MaxDelta}

\* ------------------------------------------------------------- constants
\* std::f32::consts::PI and FRAC_PI_2, in milliradians
PI == 3142
FRAC_PI_2 == 1571
FullTurn == 2 * PI

\* the 0.01 rad kept between the pitch limit and the vertical
PitchMargin == 10

orbit_distance == 20
pitch_speed == 3
roll_speed == 1
yaw_speed == 4
pitch_limit == FRAC_PI_2 - PitchMargin

\* CameraSettings::default()
CameraSettings ==
  [ orbit_distance |-> orbit_distance,
    pitch_speed    |-> pitch_speed,
    pitch_range    |-> [start |-> -pitch_limit, end |-> pitch_limit],
    roll_speed     |-> roll_speed,
    yaw_speed      |-> yaw_speed ]

\* ----------------------------------------------------------- quaternions
\* A unit quaternion is modelled by the rotation it denotes.  A rotation is
\* named by the one triple <<yaw, pitch, roll>> of YXZ angles, each a residue
\* in 0 .. FullTurn-1 and the pitch within a quarter turn of zero, that
\* produces it.

\* the residue of an angle
Residue(a) == a % FullTurn

\* the principal value of an angle, in (-PI, PI]: what atan2 / asin return
Principal(a) == IF Residue(a) > PI THEN Residue(a) - FullTurn ELSE Residue(a)

\* Quat::from_euler(EulerRot::YXZ, yaw, pitch, roll).  A pitch beyond a
\* quarter turn denotes the same rotation as the reflected pitch with yaw and
\* roll turned by PI; at exactly a quarter turn yaw and roll turn about the
\* same axis and only their combination is kept.
from_euler(yaw, pitch, roll) ==
  LET p == Principal(pitch) IN
  IF p > FRAC_PI_2
    THEN <<Residue(yaw + PI), Residue(PI - p), Residue(roll + PI)>>
  ELSE IF p < -FRAC_PI_2
    THEN <<Residue(yaw + PI), Residue(-PI - p), Residue(roll + PI)>>
  ELSE IF p = FRAC_PI_2
    THEN <<Residue(yaw - roll), Residue(p), 0>>
  ELSE IF p = -FRAC_PI_2
    THEN <<Residue(yaw + roll), Residue(p), 0>>
  ELSE <<Residue(yaw), Residue(p), Residue(roll)>>

\* Quat::to_euler(EulerRot::YXZ): <<yaw, pitch, roll>>, principal values
to_euler(q) == <<Principal(q[1]), Principal(q[2]), Principal(q[3])>>

\* Quat::IDENTITY
QuatIdentity == from_euler(0, 0, 0)

\* a clamp that forgets the upper bound
clamp_lower_only(x, lo, hi) == IF x < lo THEN lo ELSE x

\* f32::clamp
clamp(x, lo, hi) == IF x < lo THEN lo ELSE IF x > hi THEN hi ELSE x

\* ---------------------------------------------------------------- vectors
\* A position the orbit computes is  target - forward * d  with target the
\* origin: the vector of length d along the rotation's back axis.  The back
\* axis depends on the rotation's yaw and pitch only, so such a vector is
\* kept as its squared length and that axis.
back(q) == <<q[1], q[2]>>

\* the forward axis left unscaled: the orbit distance is not applied
minus_forward_unscaled(q, d) == [len2 |-> 1, dir |-> back(q)]

\* Vec3::ZERO - forward(q) * d
minus_forward_times(q, d) == [len2 |-> d * d, dir |-> back(q)]

\* Transform::from_xyz of a static entity, in hundredths
from_xyz(x, y, z) == [x |-> x, y |-> y, z |-> z]

\* Transform::from_xyz(10.0, 12.0, 16.0).looking_at(Vec3::ZERO, Vec3::Y):
\* yaw = atan2(10, 16) = 0.5586 rad, pitch = -asin(12 / sqrt(500)) = -0.5667
\* rad, no roll; the position lies on the back axis at squared distance 500.
LookYaw == 559
LookPitch == 567
CameraStart ==
  LET q == from_euler(LookYaw, -LookPitch, 0) IN
  [ translation |-> [len2 |-> 10 * 10 + 12 * 12 + 16 * 16, dir |-> back(q)],
    rotation    |-> q ]

\* ---------------------------------------------------------------- entities
\* An entity: its Name ("" when it has no Name component), whether it has a
\* Camera component, and its Transform.
Entity(name, camera, transform) ==
  [name |-> name, camera |-> camera, transform |-> transform]

At(x, y, z) == [translation |-> from_xyz(x, y, z), rotation |-> QuatIdentity]

\* the entities setup spawns, in order
SetupEntities ==
  << Entity("Camera", TRUE, CameraStart),
     Entity("Plane", FALSE, At(0, 0, 0)),
     Entity("Cube", FALSE, At(150, 51, 150)),
     Entity("Cube2", FALSE, At(-250, 51, 250)),
     Entity("Cube3", FALSE, At(150, 51, -150)),
     Entity("Cube4", FALSE, At(-150, 51, -150)),
     Entity("Light", FALSE, At(300, 200, 500)),
     Entity("", FALSE,
            [ translation |-> from_xyz(0, 0, 0),
              rotation    |-> from_euler(FRAC_PI_2, -(PI \div 4), 0) ]) >>

\* the entity instructions spawns (a Node carries a Transform)
InstructionEntities == << Entity("Instructions", FALSE, At(0, 0, 0)) >>

\* ----------------------------------------------------------------- state
VARIABLES
  phase,          \* the schedule the app is running: "Startup" or "Update"
  ran,            \* the systems that have run in the current schedule pass
  frame,          \* number of Update passes begun
  world,          \* the spawned entities, in spawn order
  mouse_buttons,  \* ButtonInput<MouseButton>: the buttons pressed
  mouse_motion,   \* AccumulatedMouseMotion.delta
  time_delta,     \* Time::delta_secs, in ms
  setup_count,    \* history: executions of setup so far
  roll_total      \* history: sum of the roll deltas orbit has applied

vars == <<phase, ran, frame, world, mouse_buttons, mouse_motion, time_delta,
          setup_count, roll_total>>

Buttons == {"Left", "Right"}
Systems == {"setup", "instructions", "orbit", "rotate"}

\* setup registered in the Update schedule
ScheduleSetupInUpdate ==
  [ setup |-> "Update", instructions |-> "Startup",
    orbit |-> "Update", rotate |-> "Update" ]

\* main(): add_systems(Startup, (setup, instructions)),
\* add_systems(Update, orbit), add_systems(Update, rotate)
ScheduleOf ==
  [ setup |-> "Startup", instructions |-> "Startup",
    orbit |-> "Update", rotate |-> "Update" ]

\* a system may run: its schedule is running and it has not run in this pass
Runnable(s) == phase = ScheduleOf[s] /\ s \notin ran

\* every system of the running schedule has run
PassDone == \A s \in Systems : ScheduleOf[s] = phase => s \in ran

\* ---------------------------------------------------------------- systems
\* the entities of the Single<&mut Transform, With<Camera>> query
Cameras(w) == {i \in DOMAIN w : w[i].camera}

\* the look delta taken from the mouse whether or not Left is pressed
look_delta_ungated(buttons, motion) == [x |-> -motion.x, y |-> -motion.y]

\* orbit, lines 173 and 177-179: the look delta
look_delta(buttons, motion) ==
  IF "Left" \in buttons
    THEN [x |-> -motion.x, y |-> -motion.y]
    ELSE [x |-> 0, y |-> 0]

\* the roll impulse applied whether or not Right is pressed
roll_delta_ungated(buttons, dt) == 1 * roll_speed * dt

\* the roll delta not scaled by the frame time
roll_delta_no_time(buttons, dt) ==
  (IF "Right" \in buttons THEN 1 ELSE 0) * roll_speed

\* orbit, lines 175, 180-182 and 191: the roll delta
roll_delta(buttons, dt) ==
  (IF "Right" \in buttons THEN 1 ELSE 0) * CameraSettings.roll_speed * dt

\* the mouse deltas scaled by the frame time (in seconds), as the comment at
\* lines 184-186 warns against
orbit_transform_times_dt(t, buttons, motion, dt) ==
  LET delta       == look_delta(buttons, motion)
      delta_pitch == (delta.y * pitch_speed * dt) \div 1000
      delta_yaw   == (delta.x * yaw_speed * dt) \div 1000
      e           == to_euler(t.rotation)
      pitch       == clamp(e[2] + delta_pitch, -pitch_limit, pitch_limit)
      rotation    == from_euler(e[1] + delta_yaw, pitch,
                                e[3] + roll_delta(buttons, dt))
  IN  [ rotation    |-> rotation,
        translation |-> minus_forward_times(rotation, orbit_distance) ]

\* the new roll taken to be the roll delta alone, the old roll forgotten
orbit_transform_roll_reset(t, buttons, motion, dt) ==
  LET delta    == look_delta(buttons, motion)
      e        == to_euler(t.rotation)
      pitch    == clamp(e[2] + delta.y * pitch_speed, -pitch_limit, pitch_limit)
      rotation == from_euler(e[1] + delta.x * yaw_speed, pitch,
                             roll_delta(buttons, dt))
  IN  [ rotation    |-> rotation,
        translation |-> minus_forward_times(rotation, orbit_distance) ]

\* orbit, lines 187-208: the camera's new transform
orbit_transform(t, buttons, motion, dt) ==
  LET delta       == look_delta(buttons, motion)
      delta_pitch == delta.y * CameraSettings.pitch_speed
      delta_yaw   == delta.x * CameraSettings.yaw_speed
      delta_roll  == roll_delta(buttons, dt)
      e           == to_euler(t.rotation)
      pitch       == clamp(e[2] + delta_pitch,
                           CameraSettings.pitch_range.start,
                           CameraSettings.pitch_range.end)
      roll        == e[3] + delta_roll
      yaw         == e[1] + delta_yaw
      rotation    == from_euler(yaw, pitch, roll)
  IN  [ rotation    |-> rotation,
        translation |-> minus_forward_times(rotation,
                                            CameraSettings.orbit_distance) ]

\* orbit: acts on the single camera entity; without exactly one the system
\* does not run its body
orbit(w, buttons, motion, dt) ==
  IF Cardinality(Cameras(w)) # 1
    THEN w
    ELSE [i \in DOMAIN w |->
            IF w[i].camera
              THEN [w[i] EXCEPT
                      !.transform = orbit_transform(@, buttons, motion, dt)]
              ELSE w[i]]

\* rotate turning the entity about its pitch axis
rotate_about_x(w, dt) ==
  [i \in DOMAIN w |->
     IF w[i].name = "Cube4"
       THEN [w[i] EXCEPT
               !.transform.rotation =
                  LET e == to_euler(@) IN from_euler(e[1], e[2] + dt, e[3])]
       ELSE w[i]]

\* rotate without the test of the name: every named entity is turned
rotate_every_name(w, dt) ==
  [i \in DOMAIN w |->
     IF w[i].name # ""
       THEN [w[i] EXCEPT
               !.transform.rotation =
                  LET e == to_euler(@) IN from_euler(e[1] + dt, e[2], e[3])]
       ELSE w[i]]

\* rotate: every entity with a Name and a Transform whose name is "Cube4"
rotate(w, dt) ==
  [i \in DOMAIN w |->
     IF w[i].name # "" /\ w[i].name = "Cube4"
       THEN [w[i] EXCEPT
               !.transform.rotation =
                  LET e == to_euler(@) IN from_euler(e[1] + dt, e[2], e[3])]
       ELSE w[i]]

\* ---------------------------------------------------------------- actions
Init ==
  /\ phase = "Startup"
  /\ ran = {}
  /\ frame = 0
  /\ world = << >>
  /\ mouse_buttons = {}
  /\ mouse_motion = [x |-> 0, y |-> 0]
  /\ time_delta = 0
  /\ setup_count = 0
  /\ roll_total = 0

Setup ==
  /\ Runnable("setup")
  /\ ran' = ran \cup {"setup"}
  /\ world' = world \o SetupEntities
  /\ setup_count' = setup_count + 1
  /\ UNCHANGED <<phase, frame, mouse_buttons, mouse_motion, time_delta,
                 roll_total>>

Instructions ==
  /\ Runnable("instructions")
  /\ ran' = ran \cup {"instructions"}
  /\ world' = world \o InstructionEntities
  /\ UNCHANGED <<phase, frame, mouse_buttons, mouse_motion, time_delta,
                 setup_count, roll_total>>

\* the engine ends a schedule pass and begins the next Update pass with the
\* frame's input and time resources
NextFrame ==
  /\ PassDone
  /\ frame < MaxFrames
  /\ phase' = "Update"
  /\ ran' = {}
  /\ frame' = frame + 1
  /\ \E b \in SUBSET Buttons, x \in MotionValues, y \in MotionValues,
        dt \in DeltaValues :
        /\ mouse_buttons' = b
        /\ mouse_motion' = [x |-> x, y |-> y]
        /\ time_delta' = dt
  /\ UNCHANGED <<world, setup_count, roll_total>>

Orbit ==
  /\ Runnable("orbit")
  /\ ran' = ran \cup {"orbit"}
  /\ world' = orbit(world, mouse_buttons, mouse_motion, time_delta)
  /\ roll_total' = IF Cardinality(Cameras(world)) = 1
                     THEN roll_total + roll_delta(mouse_buttons, time_delta)
                     ELSE roll_total
  /\ UNCHANGED <<phase, frame, mouse_buttons, mouse_motion, time_delta,
                 setup_count>>

Rotate ==
  /\ Runnable("rotate")
  /\ ran' = ran \cup {"rotate"}
  /\ world' = rotate(world, time_delta)
  /\ UNCHANGED <<phase, frame, mouse_buttons, mouse_motion, time_delta,
                 setup_count, roll_total>>

Next == Setup \/ Instructions \/ NextFrame \/ Orbit \/ Rotate

Spec == Init /\ [][Next]_vars

\* ------------------------------------------------------- claim vocabulary
\* the camera's transform, and its <<yaw, pitch, roll>> as to_euler reads it
CameraOf(w) == w[CHOOSE i \in Cameras(w) : TRUE].transform
CameraEuler(w) == to_euler(CameraOf(w).rotation)

\* the transform of the entity named "Cube4", and its angles
Cube4Of(w) == w[CHOOSE i \in DOMAIN w : w[i].name = "Cube4"].transform
Cube4Euler(w) == to_euler(Cube4Of(w).rotation)

HasCamera == Cameras(world) # {}
SameAngle(a, b) == (a - b) % FullTurn = 0
InPrincipalRange(a) == -PI < a /\ a <= PI

\* the step is an execution of orbit / of rotate
OrbitStep == "orbit" \notin ran /\ "orbit" \in ran'
RotateStep == "rotate" \notin ran /\ "rotate" \in ran'

\* orbit has executed at least once
OrbitHasRun == "orbit" \in ran \/ frame > 1

PitchLo == CameraSettings.pitch_range.start
PitchHi == CameraSettings.pitch_range.end
Dist2 == CameraSettings.orbit_distance * CameraSettings.orbit_distance

\* ------------------------------------------------------------------ C1
\* C1: in every reachable state the pitch of the camera lies in
\* [pitch_range.start, pitch_range.end], whatever the mouse delta, the
\* buttons and the elapsed time of the updates executed so far.
C1_PitchInRange ==
  \A i \in Cameras(world) :
     LET p == to_euler(world[i].transform.rotation)[2] IN
     PitchLo <= p /\ p <= PitchHi

\* the first update has run with a drag that carries the pitch of setup
\* past the upper bound, and has left the pitch on the bound
C1_Witness ==
  /\ "orbit" \in ran /\ HasCamera /\ frame = 1
  /\ "Left" \in mouse_buttons
  /\ -LookPitch - mouse_motion.y * pitch_speed > PitchHi
  /\ CameraEuler(world)[2] = PitchHi

\* ------------------------------------------------------------------ C2
\* C2 as stated: in every state reachable from setup the camera's distance
\* from the origin is orbit_distance.
C2_AlwaysAtOrbitDistance ==
  \A i \in Cameras(world) : world[i].transform.translation.len2 = Dist2

\* C2 amended: once orbit has executed, the camera's distance from the origin
\* is orbit_distance (the transform setup creates is at distance sqrt(500)).
C2_AtOrbitDistanceAfterOrbit ==
  OrbitHasRun =>
    \A i \in Cameras(world) :
       /\ world[i].transform.translation.len2 = Dist2
       /\ world[i].transform.translation.dir = back(world[i].transform.rotation)

\* orbit has turned the camera away from its first orientation and the
\* camera is at the orbit distance
C2_Witness ==
  /\ OrbitHasRun /\ HasCamera
  /\ CameraOf(world).rotation # CameraStart.rotation
  /\ CameraOf(world).translation.len2 = Dist2

\* ------------------------------------------------------------------ C3
NullInput ==
  mouse_buttons = {} /\ mouse_motion = [x |-> 0, y |-> 0]

\* C3 as stated: with no motion and no button an update leaves orientation
\* and position unchanged, from every reachable state, that of setup included.
C3_NullInputUnchanged ==
  [][OrbitStep /\ NullInput /\ HasCamera
       => CameraOf(world') = CameraOf(world)]_vars

\* C3 amended: with no motion and no button an update leaves the orientation
\* unchanged, and leaves the position unchanged when orbit has executed
\* before; the first update after setup moves the camera along its line of
\* sight from the distance of setup to orbit_distance.
C3_NullInputUnchangedAfterFirst ==
  [][OrbitStep /\ NullInput /\ HasCamera
       => /\ CameraOf(world').rotation = CameraOf(world).rotation
          /\ CameraOf(world').translation.dir = CameraOf(world).translation.dir
          /\ frame > 1 => CameraOf(world') = CameraOf(world)
          /\ frame = 1 => CameraOf(world').translation.len2 = Dist2]_vars

\* a null update has run, for a positive elapsed time, on a camera that an
\* earlier update had turned and rolled
C3_Witness ==
  /\ "orbit" \in ran /\ HasCamera /\ frame > 1
  /\ NullInput /\ time_delta > 0
  /\ CameraEuler(world)[1] # LookYaw
  /\ CameraEuler(world)[3] # 0

\* ------------------------------------------------------------------ C4
\* C4 as stated: with Left held, an update changes yaw by exactly
\* -dx * yaw_speed and pitch by exactly -dy * pitch_speed.
C4_ExactYawPitch ==
  [][OrbitStep /\ "Left" \in mouse_buttons /\ HasCamera
       => /\ CameraEuler(world')[1]
               = CameraEuler(world)[1] - mouse_motion.x * yaw_speed
          /\ CameraEuler(world')[2]
               = CameraEuler(world)[2] - mouse_motion.y * pitch_speed]_vars

\* C4 amended: with Left held, an update changes yaw by -dx * yaw_speed up to
\* whole turns (the yaw read back is the principal value), and sets pitch to
\* old pitch - dy * pitch_speed clamped to pitch_range; both are the same for
\* every elapsed time.
C4_YawPitchWrappedClamped ==
  [][OrbitStep /\ "Left" \in mouse_buttons /\ HasCamera
       => LET old   == CameraEuler(world)
              new   == CameraEuler(world')
              pitch == old[2] - mouse_motion.y * pitch_speed
          IN  /\ SameAngle(new[1], old[1] - mouse_motion.x * yaw_speed)
              /\ InPrincipalRange(new[1])
              /\ new[2] = IF pitch < PitchLo THEN PitchLo
                          ELSE IF pitch > PitchHi THEN PitchHi
                          ELSE pitch]_vars

\* an update with Left held and motion on both axes has run, in a long frame
C4_Witness ==
  /\ "orbit" \in ran /\ HasCamera
  /\ "Left" \in mouse_buttons
  /\ mouse_motion.x # 0 /\ mouse_motion.y # 0
  /\ time_delta = MaxDelta
  /\ CameraEuler(world)[1] # LookYaw

\* ------------------------------------------------------------------ C5
\* C5 as stated: with Right held for a frame of t, an update changes roll by
\* exactly roll_speed * t.
C5_ExactRoll ==
  [][OrbitStep /\ "Right" \in mouse_buttons /\ HasCamera
       => CameraEuler(world')[3]
            = CameraEuler(world)[3] + 1 * roll_speed * time_delta]_vars

\* C5 amended: with Right held for a frame of t, an update changes roll by
\* roll_speed * t up to whole turns (the roll read back is the principal
\* value), for every mouse motion and either state of Left.
C5_RollWrapped ==
  [][OrbitStep /\ "Right" \in mouse_buttons /\ HasCamera
       => /\ SameAngle(CameraEuler(world')[3],
                       CameraEuler(world)[3] + 1 * roll_speed * time_delta)
          /\ InPrincipalRange(CameraEuler(world')[3])]_vars

\* an update with both buttons held and the mouse moved has run, and the roll
\* has passed PI
C5_Witness ==
  /\ "orbit" \in ran /\ HasCamera
  /\ mouse_buttons = {"Left", "Right"}
  /\ mouse_motion.x # 0 /\ mouse_motion.y # 0
  /\ time_delta > 0
  /\ CameraEuler(world)[3] < 0

\* ------------------------------------------------------------------ C6
\* C6 as stated: each execution of rotate increases the yaw of "Cube4" by the
\* elapsed time and leaves its pitch and roll unchanged, so the yaw never
\* decreases.
C6_YawIncreases ==
  [][RotateStep /\ HasCamera
       => /\ Cube4Euler(world')[1] = Cube4Euler(world)[1] + time_delta
          /\ Cube4Euler(world')[1] >= Cube4Euler(world)[1]
          /\ Cube4Euler(world')[2] = Cube4Euler(world)[2]
          /\ Cube4Euler(world')[3] = Cube4Euler(world)[3]]_vars

\* C6 amended: each execution of rotate advances the yaw of "Cube4" by the
\* elapsed time up to whole turns (the yaw read back is the principal value,
\* which falls by a turn when it passes PI) and leaves pitch and roll
\* unchanged.
C6_YawAdvancesWrapped ==
  [][RotateStep /\ HasCamera
       => /\ SameAngle(Cube4Euler(world')[1], Cube4Euler(world)[1] + time_delta)
          /\ InPrincipalRange(Cube4Euler(world')[1])
          /\ Cube4Euler(world')[2] = Cube4Euler(world)[2]
          /\ Cube4Euler(world')[3] = Cube4Euler(world)[3]]_vars

\* rotate has run in a frame of positive time and the yaw has passed PI
C6_Witness ==
  /\ "rotate" \in ran /\ HasCamera
  /\ time_delta > 0
  /\ Cube4Euler(world)[1] < 0

\* ------------------------------------------------------------------ C7
\* C7: orbit changes the transform of the camera entity only, rotate that of
\* the entity named "Cube4" only, the two are different entities, no step
\* changes any other entity, and a frame ends in the same state whichever of
\* orbit and rotate runs first.
C7_DisjointWrites ==
  [][/\ OrbitStep =>
          /\ DOMAIN world' = DOMAIN world
          /\ \A i \in DOMAIN world :
                ~world[i].camera => world'[i] = world[i]
     /\ RotateStep =>
          /\ DOMAIN world' = DOMAIN world
          /\ \A i \in DOMAIN world :
                world[i].name # "Cube4" => world'[i] = world[i]
     /\ \A i \in DOMAIN world : ~(world[i].camera /\ world[i].name = "Cube4")
     /\ phase = "Update" =>
          orbit(rotate(world, time_delta),
                mouse_buttons, mouse_motion, time_delta)
            = rotate(orbit(world, mouse_buttons, mouse_motion, time_delta),
                     time_delta)]_vars

\* both systems have run in a frame and each has changed its entity
C7_Witness ==
  /\ ran = {"orbit", "rotate"} /\ HasCamera
  /\ "Left" \in mouse_buttons /\ mouse_motion.x # 0
  /\ time_delta > 0
  /\ CameraOf(world).rotation # CameraStart.rotation
  /\ Cube4Of(world).rotation # QuatIdentity

\* ------------------------------------------------------------------ C8
\* C8: setup executes once and no more, and before every execution of orbit
\* and rotate: whenever the Update schedule runs, setup has executed exactly
\* once and the camera entity exists.
C8_SetupOnceBeforeUpdates ==
  /\ setup_count <= 1
  /\ (phase = "Update" \/ "orbit" \in ran \/ "rotate" \in ran)
       => setup_count = 1 /\ Cardinality(Cameras(world)) = 1

\* two frames of updates have run after the one execution of setup
C8_Witness ==
  /\ frame >= 2 /\ ran = {"orbit", "rotate"}
  /\ setup_count = 1

\* ------------------------------------------------------------------ C9
\* C9: an update with Left not held leaves yaw and pitch unchanged whatever
\* the mouse motion; an update with Right not held leaves roll unchanged
\* whatever the elapsed time and the mouse motion.
C9_ButtonGating ==
  [][OrbitStep /\ HasCamera
       => /\ "Left" \notin mouse_buttons =>
               /\ CameraEuler(world')[1] = CameraEuler(world)[1]
               /\ CameraEuler(world')[2] = CameraEuler(world)[2]
          /\ "Right" \notin mouse_buttons =>
               CameraEuler(world')[3] = CameraEuler(world)[3]]_vars

\* an update has run with no button held, the mouse moved on both axes and a
\* positive elapsed time
C9_Witness ==
  /\ "orbit" \in ran /\ HasCamera
  /\ mouse_buttons = {}
  /\ mouse_motion.x # 0 /\ mouse_motion.y # 0
  /\ time_delta > 0

\* ------------------------------------------------------------------ C10
\* C10 as stated: the roll read back from the camera's orientation equals the
\* roll of setup (zero) plus the sum of the roll deltas applied so far, no
\* bound or wrap-around applied.
C10_RollUnwrapped ==
  HasCamera => CameraEuler(world)[3] = 0 + roll_total

\* C10 amended: the roll read back from the camera's orientation is the
\* principal value, in (-PI, PI], of the roll of setup plus the sum of the
\* roll deltas applied so far: it wraps around by whole turns.
C10_RollWrapsToPrincipal ==
  HasCamera =>
    /\ SameAngle(CameraEuler(world)[3], 0 + roll_total)
    /\ InPrincipalRange(CameraEuler(world)[3])

\* Right was held through two updates of the longest frame time, and the sum
\* of the roll deltas has passed PI
C10_Witness ==
  /\ HasCamera /\ frame = 2 /\ "orbit" \in ran
  /\ roll_total = 2 * roll_speed * MaxDelta
  /\ roll_total > PI

====
